---- MODULE Spec2Model ----
(***************************************************************************)
(* EM-Wave-Propagation: the FDTD solver's driver (2D_wave.cpp and          *)
(* 3D_wave.cpp), the GPU commands it issues and the per-cell update the    *)
(* compute shaders apply.  The compute shaders (shaders/maxwell.comp and   *)
(* shaders/maxwell3d.comp) are not among the sources; their per-cell rule  *)
(* is taken from the design description (sections 4.2 and 5).              *)
(*                                                                         *)
(* Numbers: an IEEE single is modelled as a signed fixed-point number with *)
(* FracBits fractional bits; products and quotients round toward zero      *)
(* (sign-symmetric, like IEEE rounding).                                   *)
(***************************************************************************)
EXTENDS Integers, Sequences, FiniteSets, TLC

----------------------------------------------------------------------------
(* Bounds of the model *)

\* half of the 2D grid's extent: NX = NY = 2 * HalfN2D (512 = 2 * 256 in the source)
HalfN2D == 4
\* half of the 3D grid's extent: NX = NY = NZ = 2 * HalfN3D (128 = 2 * 64 in the source)
HalfN3D == 2
\* the driver runs forever; the model stops starting Update Stage invocations here
MaxSteps2D == 4
MaxSteps3D == 2
\* fractional bits of the fixed-point stand-in for float
FracBits == 12
\* width of a C++ int where its overflow is examined: the timestep counter
\* and the arguments and results of the grid.h functions (32 in the source)
IntBits == 4
\* largest grid extent for which the index functions are tabulated
MaxExtent == 3

----------------------------------------------------------------------------
(* Fixed-point arithmetic standing in for float *)

ONE == 2 ^ FracBits

\* integer quotient rounded toward zero
TDiv(n, d) == IF n >= 0 THEN n \div d ELSE -((-n) \div d)

Min(a, b) == IF a < b THEN a ELSE b
Max(a, b) == IF a > b THEN a ELSE b

FMul(a, b) == TDiv(a * b, ONE)
FDiv(a, b) == TDiv(a * ONE, b)

\* GLSL's PI constant, 3.14159265
PI == TDiv(355 * ONE, 113)

\* odd Taylor polynomial of sin on [-pi/2, pi/2]: x - x^3/6 + x^5/120
SinPoly(x) ==
    LET x2 == FMul(x, x)
        x3 == FMul(x2, x)
        x5 == FMul(x3, x2)
    IN  x - TDiv(x3, 6) + TDiv(x5, 120)

\* sin(x): the argument is reduced to one period, then to [-pi/2, pi/2]
Sin(x) ==
    LET r == x % (2 * PI)
    IN  IF 2 * r <= PI THEN SinPoly(r)
        ELSE IF 2 * r <= 3 * PI THEN SinPoly(PI - r)
        ELSE SinPoly(r - 2 * PI)

----------------------------------------------------------------------------
(* em_common.h: normalized constants *)

C    == ONE
DX   == ONE
DT   == ONE \div 2
EPS0 == ONE
MU0  == ONE
\* 0.6, above the 3D limit 1/sqrt(3) = 0.577 and below the 2D limit
DT_3D_AboveLimit == (3 * ONE) \div 5
DT_3D == ONE \div 2

(* 2D_wave.cpp / 3D_wave.cpp: grid and simulation constants *)

NX2D == 2 * HalfN2D
NY2D == 2 * HalfN2D
GRID_SIZE_2D == NX2D * NY2D
STEPS_PER_FRAME_2D == 4
SOURCE_FREQ_2D == TDiv(4 * ONE, 100)

NX3D == 2 * HalfN3D
NY3D == 2 * HalfN3D
NZ3D == 2 * HalfN3D
GRID_SIZE_3D == NX3D * NY3D * NZ3D
STEPS_PER_FRAME_3D == 1
SOURCE_FREQ_3D == TDiv(6 * ONE, 100)

SOURCE_AMP == ONE

Modes == {"2D", "3D"}

GridSize(m) == IF m = "2D" THEN GRID_SIZE_2D ELSE GRID_SIZE_3D
StepsPerFrame(m) == IF m = "2D" THEN STEPS_PER_FRAME_2D ELSE STEPS_PER_FRAME_3D
MaxSteps(m) == IF m = "2D" THEN MaxSteps2D ELSE MaxSteps3D

\* the field arrays of a mode: Ez,Hx,Hy (2D TM); Ex,Ey,Ez,Hx,Hy,Hz (3D)
EComps(m) == IF m = "2D" THEN {"Ez"} ELSE {"Ex", "Ey", "Ez"}
HComps(m) == IF m = "2D" THEN {"Hx", "Hy"} ELSE {"Hx", "Hy", "Hz"}
Comps(m) == EComps(m) \cup HComps(m)

----------------------------------------------------------------------------
(* Grid addressing (grid.h) *)

INT_MAX == 2 ^ (IntBits - 1) - 1
INT_MIN == -(2 ^ (IntBits - 1))
IntRange == INT_MIN .. INT_MAX

\* two's complement reduction to the width of an int
Wrap(v) == ((v - INT_MIN) % (2 ^ IntBits)) + INT_MIN

\* the outcomes of a signed int expression with mathematical value v whose
\* intermediate results are steps: overflow is undefined behaviour, the build
\* wraps or traps
IntOutcomes(v, steps) ==
    IF steps \subseteq IntRange
    THEN {[status |-> "returned", value |-> v]}
    ELSE {[status |-> "returned", value |-> Wrap(v)],
          [status |-> "trapped", value |-> 0]}

\* the argument order is confused: x * nx + y
idx2d_Transposed(x, y, nx) == x * nx + y

idx2d(x, y, nx) == y * nx + x
inBounds(x, y, nx, ny) == x >= 0 /\ x < nx /\ y >= 0 /\ y < ny
\* the plane stride leaves out ny
idx3d_PlaneStride(x, y, z, nx, ny) == z * nx + y * nx + x
idx3d(x, y, z, nx, ny) == z * nx * ny + y * nx + x
inBounds3D(x, y, z, nx, ny, nz) ==
    x >= 0 /\ x < nx /\ y >= 0 /\ y < ny /\ z >= 0 /\ z < nz

----------------------------------------------------------------------------
(* The Parameter Block (SimParams / SimParams3D) as the shader reads it *)

PNz(p) == IF "nz" \in DOMAIN p THEN p.nz ELSE 1
PSrcZ(p) == IF "source_z" \in DOMAIN p THEN p.source_z ELSE 0
PCells(p) == 0 .. (p.nx * p.ny * PNz(p) - 1)

CX(p, i) == i % p.nx
CY(p, i) == (i \div p.nx) % p.ny
CZ(p, i) == i \div (p.nx * p.ny)
Cell(p, x, y, z) == idx3d(x, y, z, p.nx, p.ny)
SourceCell(p) == Cell(p, p.source_x, p.source_y, PSrcZ(p))

\* reduced stencil at the faces: a neighbour outside the grid is replaced by
\* the cell itself, so nothing is fetched outside the array
Fwd(v, n) == IF v + 1 < n THEN v + 1 ELSE v
Bwd(v) == IF v > 0 THEN v - 1 ELSE v

XP(p, i) == Cell(p, Fwd(CX(p, i), p.nx), CY(p, i), CZ(p, i))
YP(p, i) == Cell(p, CX(p, i), Fwd(CY(p, i), p.ny), CZ(p, i))
ZP(p, i) == Cell(p, CX(p, i), CY(p, i), Fwd(CZ(p, i), PNz(p)))
XM(p, i) == Cell(p, Bwd(CX(p, i)), CY(p, i), CZ(p, i))
YM(p, i) == Cell(p, CX(p, i), Bwd(CY(p, i)), CZ(p, i))
ZM(p, i) == Cell(p, CX(p, i), CY(p, i), Bwd(CZ(p, i)))

\* a read of array comp at index i; the 2D solver has no Ex, Ey, Hz
Rd(V, comp, i) == IF comp \in DOMAIN V THEN V[comp][i] ELSE 0

----------------------------------------------------------------------------
(* Pass 1: magnetic update of one cell, H -= dt/(mu0*dx) * curl E *)

CoefH(p) == FDiv(p.dt, FMul(MU0, p.dx))

CurlE(V, p, comp, i) ==
    CASE comp = "Hx" -> (Rd(V, "Ez", YP(p, i)) - Rd(V, "Ez", i))
                        - (Rd(V, "Ey", ZP(p, i)) - Rd(V, "Ey", i))
      [] comp = "Hy" -> (Rd(V, "Ex", ZP(p, i)) - Rd(V, "Ex", i))
                        - (Rd(V, "Ez", XP(p, i)) - Rd(V, "Ez", i))
      [] comp = "Hz" -> (Rd(V, "Ey", XP(p, i)) - Rd(V, "Ey", i))
                        - (Rd(V, "Ex", YP(p, i)) - Rd(V, "Ex", i))

HCell(V, p, comp, i) == V[comp][i] - FMul(CoefH(p), CurlE(V, p, comp, i))

----------------------------------------------------------------------------
(* Pass 2: electric update of one cell, E += dt/(eps0*dx) * curl H,        *)
(* then the soft source, then the Mur boundary                             *)

CoefE(p) == FDiv(p.dt, FMul(EPS0, p.dx))

CurlH(V, p, comp, i) ==
    CASE comp = "Ex" -> (Rd(V, "Hz", i) - Rd(V, "Hz", YM(p, i)))
                        - (Rd(V, "Hy", i) - Rd(V, "Hy", ZM(p, i)))
      [] comp = "Ey" -> (Rd(V, "Hx", i) - Rd(V, "Hx", ZM(p, i)))
                        - (Rd(V, "Hz", i) - Rd(V, "Hz", XM(p, i)))
      [] comp = "Ez" -> (Rd(V, "Hy", i) - Rd(V, "Hy", XM(p, i)))
                        - (Rd(V, "Hx", i) - Rd(V, "Hx", YM(p, i)))

\* source_amp * sin(2*pi*source_freq*time)
SourceTerm(p) ==
    FMul(p.source_amp, Sin(FMul(FMul(2 * PI, p.source_freq), p.time)))

\* the soft source drives Ez at the source cell
ECurlCell(V, p, comp, i) ==
    V[comp][i] + FMul(CoefE(p), CurlH(V, p, comp, i))
    + (IF comp = "Ez" /\ i = SourceCell(p) THEN SourceTerm(p) ELSE 0)

\* Mur coefficient (c*dt - dx)/(c*dt + dx)
MurCoef(p) == FDiv(FMul(C, p.dt) - p.dx, FMul(C, p.dt) + p.dx)

\* the axes whose faces an E component is tangential to
MurAxes(p, comp) ==
    (CASE comp = "Ex" -> {"y", "z"}
       [] comp = "Ey" -> {"x", "z"}
       [] comp = "Ez" -> {"x", "y"})
    \ (IF "nz" \in DOMAIN p THEN {} ELSE {"z"})

\* one cell inward along one axis, for a coordinate on a face of that axis
In1(v, n) == IF v = 0 THEN 1 ELSE IF v = n - 1 THEN n - 2 ELSE v

OnFace(v, n) == v = 0 \/ v = n - 1

IsMur(p, comp, i) ==
    \/ "x" \in MurAxes(p, comp) /\ OnFace(CX(p, i), p.nx)
    \/ "y" \in MurAxes(p, comp) /\ OnFace(CY(p, i), p.ny)
    \/ "z" \in MurAxes(p, comp) /\ OnFace(CZ(p, i), PNz(p))

Inward(p, comp, i) ==
    Cell(p,
         IF "x" \in MurAxes(p, comp) THEN In1(CX(p, i), p.nx) ELSE CX(p, i),
         IF "y" \in MurAxes(p, comp) THEN In1(CY(p, i), p.ny) ELSE CY(p, i),
         IF "z" \in MurAxes(p, comp) THEN In1(CZ(p, i), PNz(p)) ELSE CZ(p, i))

\* a boundary cell's tangential E is set from its own previous value (own)
\* and the value it reads one cell inward (inw)
MurCell(p, own, inw) == inw + FMul(MurCoef(p), inw - own)

\* the whole per-cell worker of pass 2: V is what it reads of the arrays,
\* W is the E array as the read of the inward cell finds it
ECell(V, W, p, comp, i) ==
    IF IsMur(p, comp, i)
    THEN MurCell(p, V[comp][i], W[comp][Inward(p, comp, i)])
    ELSE ECurlCell(V, p, comp, i)

----------------------------------------------------------------------------
(* Whole passes.  All invocations of a dispatch run in an unspecified      *)
(* order; each reads the live arrays and writes only its own cell.         *)

\* pass 1 writes H only and reads E only besides its own cell: every order
\* of the invocations gives this result
HPass(V, p) ==
    [comp \in DOMAIN V |->
        IF comp \in {"Hx", "Hy", "Hz"}
        THEN [i \in PCells(p) |-> HCell(V, p, comp, i)]
        ELSE V[comp]]

\* pass 2, the cells that are not set by the boundary rule
ECurlPass(V, p) ==
    [comp \in DOMAIN V |->
        IF comp \in {"Ex", "Ey", "Ez"}
        THEN [i \in PCells(p) |->
                IF IsMur(p, comp, i) THEN V[comp][i]
                ELSE ECurlCell(V, p, comp, i)]
        ELSE V[comp]]

\* the boundary reads that race with a write of the same pass: the inward
\* cell is written by another invocation of the dispatch
Racing(V, p) ==
    LET W == ECurlPass(V, p)
    IN  {r \in {"Ex", "Ey", "Ez"} \X PCells(p) :
            /\ r[1] \in DOMAIN V
            /\ IsMur(p, r[1], r[2])
            /\ W[r[1]][Inward(p, r[1], r[2])] /= V[r[1]][Inward(p, r[1], r[2])]}

\* pass 2 when the boundary invocations in late run after the invocation of
\* their inward cell and the other boundary invocations run before it
EPass(V, p, late) ==
    LET W == ECurlPass(V, p)
    IN  [comp \in DOMAIN V |->
            IF comp \in {"Ex", "Ey", "Ez"}
            THEN [i \in PCells(p) |->
                    ECell(V, IF <<comp, i>> \in late THEN W ELSE V, p, comp, i)]
            ELSE V[comp]]

----------------------------------------------------------------------------
(* Engine and main *)

VARIABLES
    mode,            \* which executable runs: 2D_wave or 3D_wave
    sourceAmp,       \* the SOURCE_AMP the executable was built with
    pc,              \* position of main
    timestep,        \* main's int timestep
    i,               \* main's loop variable i
    shouldClose,     \* the window's close flag
    params,          \* contents of simParamsUBO
    updateStep,      \* the compute program's updateStep uniform
    field,           \* contents of the field SSBOs
    stale,           \* their contents as of the last storage barrier
    dirty,           \* arrays written by a dispatch since the last storage barrier
    renderComponent, \* 3D_wave.cpp globals
    sliceAxis,
    sliceIndex,
    calls,           \* history: updateFields calls so far
    hPasses,         \* history: pass 1 dispatches so far
    ePasses,         \* history: pass 2 dispatches so far
    frames,          \* history: loop iterations begun
    renders,         \* history: render calls so far
    staleReads,      \* history: the shader stages that read unsynchronised data
    config,          \* the constants the executable was built with
    call,            \* a grid.h function under call: its arguments and result
    globalSize,      \* history: invocations per axis of the last dispatch
    badReads,        \* history: field reads of the renderer outside the arrays
    schedule         \* history: the invocation order taken in each pass 2

vars == <<mode, sourceAmp, pc, timestep, i, shouldClose, params, updateStep,
          field, stale, dirty, renderComponent, sliceAxis, sliceIndex,
          calls, hPasses, ePasses, frames, renders, staleReads,
          config, call, globalSize, badReads, schedule>>

uiVars == <<renderComponent, sliceAxis, sliceIndex>>
gpuVars == <<params, updateStep, field, stale, dirty>>
histVars == <<calls, hPasses, ePasses, frames, renders, staleReads,
              globalSize, badReads, schedule>>

\* the constants of the shipped executables: em::DT / em::DT_3D and NX, NY, NZ
DefaultConfig(m) ==
    IF m = "2D"
    THEN [dt |-> DT, nx |-> NX2D, ny |-> NY2D, nz |-> 1]
    ELSE [dt |-> DT_3D, nx |-> NX3D, ny |-> NY3D, nz |-> NZ3D]

\* no grid.h function is under call
NoCall == [fn |-> "none"]

\* a buffer created without its zero data: one cell holds a leftover value
initBuffers_Garbage(m) ==
    [comp \in Comps(m) |->
        [c \in 0 .. (GridSize(m) - 1) |-> IF comp = "Ez" /\ c = 0 THEN ONE ELSE 0]]

\* the Hy buffer is created one float short
initBuffers_ShortH(m) ==
    [comp \in Comps(m) |->
        [c \in 0 .. (GridSize(m) - (IF comp = "Hy" THEN 2 ELSE 1)) |-> 0]]

\* Engine::initBuffers: every field SSBO is created from a vector of zeros
initBuffers(m) == [comp \in Comps(m) |-> [c \in 0 .. (GridSize(m) - 1) |-> 0]]

\* the block carries the time at the end of the step instead of its start
uploadSimParams2D_TimeAhead(t, amp) ==
    [nx |-> NX2D, ny |-> NY2D,
     source_x |-> NX2D \div 2, source_y |-> NY2D \div 2,
     dx |-> DX, dt |-> DT, time |-> (t + 1) * DT,
     source_freq |-> SOURCE_FREQ_2D, source_amp |-> amp,
     field_scale |-> ONE, timestep |-> t, pad0 |-> 0]

\* source_amp and field_scale are written to each other's slot of the block
uploadSimParams2D_AmpSwapped(t, amp) ==
    [nx |-> NX2D, ny |-> NY2D,
     source_x |-> NX2D \div 2, source_y |-> NY2D \div 2,
     dx |-> DX, dt |-> DT, time |-> t * DT,
     source_freq |-> SOURCE_FREQ_2D, source_amp |-> ONE,
     field_scale |-> amp, timestep |-> t, pad0 |-> 0]

\* the source is placed at (NX - 1) / 2 instead of NX / 2
uploadSimParams2D_OffCentre(t, amp) ==
    [nx |-> NX2D, ny |-> NY2D,
     source_x |-> (NX2D - 1) \div 2, source_y |-> NY2D \div 2,
     dx |-> DX, dt |-> DT, time |-> t * DT,
     source_freq |-> SOURCE_FREQ_2D, source_amp |-> amp,
     field_scale |-> ONE, timestep |-> t, pad0 |-> 0]

\* the dt slot receives the current time
uploadSimParams2D_DtIsTime(t, amp) ==
    [nx |-> NX2D, ny |-> NY2D,
     source_x |-> NX2D \div 2, source_y |-> NY2D \div 2,
     dx |-> DX, dt |-> t * config.dt, time |-> t * config.dt,
     source_freq |-> SOURCE_FREQ_2D, source_amp |-> amp,
     field_scale |-> ONE, timestep |-> t, pad0 |-> 0]

\* Engine::uploadSimParams(timestep), 2D
uploadSimParams2D(t, amp) ==
    [nx |-> NX2D, ny |-> NY2D,
     source_x |-> NX2D \div 2, source_y |-> NY2D \div 2,
     dx |-> DX, dt |-> config.dt, time |-> t * config.dt,
     source_freq |-> SOURCE_FREQ_2D, source_amp |-> amp,
     field_scale |-> ONE, timestep |-> t, pad0 |-> 0]

\* the slice position is stored in the source_z slot as well
uploadSimParams3D_SliceAsSource(t, amp, rc, sa, si) ==
    [nx |-> NX3D, ny |-> NY3D, nz |-> NZ3D,
     source_x |-> NX3D \div 2, source_y |-> NY3D \div 2, source_z |-> si,
     dx |-> DX, dt |-> config.dt, time |-> t * config.dt,
     source_freq |-> SOURCE_FREQ_3D, source_amp |-> amp,
     field_scale |-> ONE, timestep |-> t,
     render_component |-> rc, slice_axis |-> sa, slice_index |-> si]

\* Engine::uploadSimParams(timestep), 3D
uploadSimParams3D(t, amp, rc, sa, si) ==
    [nx |-> NX3D, ny |-> NY3D, nz |-> NZ3D,
     source_x |-> NX3D \div 2, source_y |-> NY3D \div 2, source_z |-> NZ3D \div 2,
     dx |-> DX, dt |-> config.dt, time |-> t * config.dt,
     source_freq |-> SOURCE_FREQ_3D, source_amp |-> amp,
     field_scale |-> ONE, timestep |-> t,
     render_component |-> rc, slice_axis |-> sa, slice_index |-> si]

\* the UBO is allocated without data; nothing reads it before the first upload
NoParams == [timestep |-> -1]

\* the state main starts its loop in: Engine::init has run, timestep = 0
InitState(amp) ==
    /\ sourceAmp = amp
    /\ pc = "test"
    /\ timestep = 0
    /\ i = 0
    /\ shouldClose = FALSE
    /\ params = NoParams
    /\ updateStep = 0
    /\ field = initBuffers(mode)
    /\ stale = initBuffers(mode)
    /\ dirty = {}
    /\ renderComponent = 2
    /\ sliceAxis = 0
    /\ sliceIndex = config.nz \div 2
    /\ calls = 0
    /\ hPasses = 0
    /\ ePasses = 0
    /\ frames = 0
    /\ renders = 0
    /\ staleReads = {}
    /\ globalSize = <<0, 0, 0>>
    /\ badReads = {}
    /\ schedule = <<>>

InitWith(amp) ==
    /\ mode \in Modes
    /\ config = DefaultConfig(mode)
    /\ call = NoCall
    /\ InitState(amp)

Init == InitWith(SOURCE_AMP)

\* the loop runs one step too many
ForCond_OffByOne(k, m) == k <= StepsPerFrame(m)

\* for (int i = 0; i < STEPS_PER_FRAME; ++i)
ForCond(k, m) == k < StepsPerFrame(m)

\* while (!glfwWindowShouldClose(window)) { glClear; for (i = 0; ...
LoopTest ==
    /\ pc = "test"
    /\ IF shouldClose
       THEN /\ pc' = "cleanup"
            /\ UNCHANGED <<i, frames>>
       ELSE /\ i' = 0
            /\ frames' = frames + 1
            /\ pc' = IF ForCond(0, mode) THEN "upload" ELSE "render"
    /\ UNCHANGED <<mode, sourceAmp, config, call, timestep, shouldClose, gpuVars, uiVars,
                   calls, hPasses, ePasses, renders, staleReads,
                   globalSize, badReads, schedule>>

\* updateFields(timestep): glUseProgram; uploadSimParams(timestep)
UploadBlock ==
    /\ pc = "upload"
    /\ params' = IF mode = "2D"
                 THEN uploadSimParams2D(timestep, sourceAmp)
                 ELSE uploadSimParams3D(timestep, sourceAmp, renderComponent,
                                        sliceAxis, sliceIndex)
    /\ calls' = calls + 1
    /\ pc' = "dispatchH"
    /\ UNCHANGED <<mode, sourceAmp, config, call, timestep, i, shouldClose, updateStep,
                   field, stale, dirty, uiVars,
                   hPasses, ePasses, frames, renders, staleReads,
                   globalSize, badReads, schedule>>

\* the model follows a run for MaxSteps Update Stage invocations
UploadSimParams ==
    /\ timestep < MaxSteps(mode)
    /\ UploadBlock

\* with SOURCE_AMP = 0 the arrays stay zero and the model follows the run
\* until the counter has left the range of an int, and one invocation more
UploadSimParamsLong ==
    /\ sourceAmp = 0
    /\ calls <= INT_MAX + 1
    /\ UploadBlock

\* what a shader stage can read of the arrays: an array written since the
\* last storage barrier may still show, cell by cell, its contents as of that
\* barrier
Views ==
    LET diff == {r \in dirty \X (0 .. (GridSize(mode) - 1)) :
                    stale[r[1]][r[2]] /= field[r[1]][r[2]]}
    IN  {[comp \in DOMAIN field |->
            [c \in DOMAIN field[comp] |->
                IF <<comp, c>> \in S THEN stale[comp][c] ELSE field[comp][c]]] :
         S \in SUBSET diff}

\* a barrier that does not cover shader storage writes
BarrierAfterH_Wrong == "UNIFORM_BARRIER_BIT"
BarrierAfterE_Wrong == "UNIFORM_BARRIER_BIT"

\* the barrier bits given to glMemoryBarrier after pass 1 and after pass 2
BarrierAfterH == "SHADER_STORAGE_BARRIER_BIT"
BarrierAfterE == "SHADER_STORAGE_BARRIER_BIT"

\* glMemoryBarrier(bits): shader storage writes issued before it are visible
\* to every shader access issued after it
MemoryBarrier(bits) ==
    IF bits = "SHADER_STORAGE_BARRIER_BIT"
    THEN /\ stale' = field
         /\ dirty' = {}
    ELSE UNCHANGED <<stale, dirty>>

\* the work group size of the compute shader along each axis (16 x 16 in 2D,
\* 8 x 8 x 8 in 3D): the grid extent is a whole number of work groups
LOCAL_SIZE_2D == HalfN2D
LOCAL_SIZE_3D == HalfN3D
LocalSize(m) ==
    IF m = "2D" THEN <<LOCAL_SIZE_2D, LOCAL_SIZE_2D, 1>>
    ELSE <<LOCAL_SIZE_3D, LOCAL_SIZE_3D, LOCAL_SIZE_3D>>

\* one work group too many whenever the extent is a multiple of the group size
GroupCount_Extra(n, local) == (n \div local) + 1

\* GLuint gx = (NX + 15) / 16, and likewise per axis
GroupCount(n, local) == (n + (local - 1)) \div local

\* gx, gy, gz of updateFields
WorkGroups(m) ==
    IF m = "2D"
    THEN <<GroupCount(NX2D, LOCAL_SIZE_2D), GroupCount(NY2D, LOCAL_SIZE_2D), 1>>
    ELSE <<GroupCount(NX3D, LOCAL_SIZE_3D), GroupCount(NY3D, LOCAL_SIZE_3D),
           GroupCount(NZ3D, LOCAL_SIZE_3D)>>

\* glDispatchCompute(gx, gy, gz): the invocations per axis it starts
glDispatchCompute(g, l) == <<g[1] * l[1], g[2] * l[2], g[3] * l[3]>>

\* glUniform1i(loc_updateStep, 0); glDispatchCompute(gx, gy, gz)
DispatchH ==
    /\ pc = "dispatchH"
    /\ updateStep' = 0
    /\ \E V \in Views :
          /\ field' = HPass(V, params)
          /\ staleReads' = IF V = field THEN staleReads ELSE staleReads \cup {"H"}
    /\ dirty' = dirty \cup HComps(mode)
    /\ globalSize' = glDispatchCompute(WorkGroups(mode), LocalSize(mode))
    /\ hPasses' = hPasses + 1
    /\ pc' = "barrierH"
    /\ UNCHANGED <<mode, sourceAmp, config, call, timestep, i, shouldClose, params, stale,
                   uiVars, calls, ePasses, frames, renders, badReads, schedule>>

\* glMemoryBarrier(GL_SHADER_STORAGE_BARRIER_BIT) after pass 1
BarrierH ==
    /\ pc = "barrierH"
    /\ MemoryBarrier(BarrierAfterH)
    /\ pc' = "dispatchE"
    /\ UNCHANGED <<mode, sourceAmp, config, call, timestep, i, shouldClose, params,
                   updateStep, field, uiVars, histVars>>

\* glUniform1i(loc_updateStep, 1); glDispatchCompute(gx, gy, gz)
DispatchE ==
    /\ pc = "dispatchE"
    /\ updateStep' = 1
    /\ \E V \in Views :
          /\ \E late \in SUBSET Racing(V, params) :
                /\ field' = EPass(V, params, late)
                /\ schedule' = Append(schedule, late)
          /\ staleReads' = IF V = field THEN staleReads ELSE staleReads \cup {"E"}
    /\ dirty' = dirty \cup EComps(mode)
    /\ globalSize' = glDispatchCompute(WorkGroups(mode), LocalSize(mode))
    /\ ePasses' = ePasses + 1
    /\ pc' = "barrierE"
    /\ UNCHANGED <<mode, sourceAmp, config, call, timestep, i, shouldClose, params, stale,
                   uiVars, calls, hPasses, frames, renders, badReads>>

\* glMemoryBarrier(GL_SHADER_STORAGE_BARRIER_BIT) after pass 2; updateFields returns
BarrierE ==
    /\ pc = "barrierE"
    /\ MemoryBarrier(BarrierAfterE)
    /\ pc' = "inc"
    /\ UNCHANGED <<mode, sourceAmp, config, call, timestep, i, shouldClose, params,
                   updateStep, field, uiVars, histVars>>

\* the counter skips a step
NextTimestep_Skip(t) == t + 2

\* ++timestep
NextTimestep(t) == t + 1

\* ++timestep; ++i; the for condition
Increment ==
    /\ pc = "inc"
    /\ \E r \in IntOutcomes(NextTimestep(timestep), {NextTimestep(timestep)}) :
          IF r.status = "returned"
          THEN /\ timestep' = r.value
               /\ i' = i + 1
               /\ pc' = IF ForCond(i + 1, mode) THEN "upload" ELSE "render"
          ELSE /\ pc' = "aborted"
               /\ UNCHANGED <<timestep, i>>
    /\ UNCHANGED <<mode, sourceAmp, config, call, shouldClose, gpuVars, uiVars, histVars>>

\* 0.5 in the shaders' arithmetic
HALF == ONE \div 2

\* TexCoord of the fullscreen quad's fragments: corners, edges and centre
TexCoords == {0, HALF, ONE}
\* winW / winH of the framebuffer (1 when winH is 0)
Aspects == {HALF, ONE, (16 * ONE) \div 9}
\* Camera2D::zoom stays in [minZoom, maxZoom]; Camera2D::center is unbounded
Zooms == {HALF, ONE, 10 * ONE}
Centers == {-HALF, 0, HALF}

\* the upper limit is one too high
clamp_UpperOpen(v, lo, hi) == Min(Max(v, lo), hi + 1)

\* GLSL clamp(x, minVal, maxVal) on int
clamp(v, lo, hi) == Min(Max(v, lo), hi)

\* GLSL int(float): the fractional part is dropped
IntOf(q) == TDiv(q, ONE)

\* the shaders' out-of-bounds test on uv
OutOfView(u, v) == u < 0 \/ u > ONE \/ v < 0 \/ v > ONE

\* field.frag main() for one fragment: the SSBO elements it reads
fieldFragMain(tx, ty, nx, ny, aspect, cx, cy, zoom) ==
    LET ax == FMul(tx - HALF, aspect) + HALF
        ux == FDiv(ax - HALF, zoom) + cx + HALF
        uy == FDiv(ty - HALF, zoom) + cy + HALF
        ix == clamp(IntOf(FMul(ux, nx * ONE)), 0, nx - 1)
        iy == clamp(IntOf(FMul(uy, ny * ONE)), 0, ny - 1)
    IN  IF OutOfView(ux, uy) THEN {}
        ELSE {[comp |-> "Ez", index |-> iy * nx + ix]}

\* slice3d.frag sampleField: the arrays read for a component number
sampleField(comp) ==
    IF comp = 0 THEN {"Ex"}
    ELSE IF comp = 1 THEN {"Ey"}
    ELSE IF comp = 2 THEN {"Ez"}
    ELSE IF comp = 3 THEN {"Ex", "Ey", "Ez"}
    ELSE IF comp = 4 THEN {"Hx"}
    ELSE IF comp = 5 THEN {"Hy"}
    ELSE {"Hz"}

\* slice3d.frag main() for one fragment: the SSBO elements it reads
slice3dFragMain(tx, ty, nx, ny, nz, rc, sa, si, aspect) ==
    LET dim_u == IF sa = 0 \/ sa = 1 THEN nx ELSE ny
        dim_v == IF sa = 0 THEN ny ELSE nz
        ratio == FDiv(dim_u * ONE, dim_v * ONE)
        ux == FDiv(FMul(tx - HALF, aspect), ratio) + HALF
        u  == clamp(IntOf(FMul(ux, dim_u * ONE)), 0, dim_u - 1)
        v  == clamp(IntOf(FMul(ty, dim_v * ONE)), 0, dim_v - 1)
        gx == IF sa = 0 \/ sa = 1 THEN u ELSE si
        gy == IF sa = 0 THEN v ELSE IF sa = 1 THEN si ELSE u
        gz == IF sa = 0 THEN si ELSE v
    IN  IF OutOfView(ux, ty) THEN {}
        ELSE {[comp |-> c, index |-> gz * nx * ny + gy * nx + gx] :
                 c \in sampleField(rc)}

\* glDrawArrays of the fullscreen quad with the uniforms render() sets
RenderReads(aspect, cx, cy, zoom) ==
    UNION {IF mode = "2D"
           THEN fieldFragMain(tx, ty, config.nx, config.ny, aspect, cx, cy, zoom)
           ELSE slice3dFragMain(tx, ty, config.nx, config.ny, config.nz,
                                renderComponent, sliceAxis, sliceIndex, aspect) :
           tx \in TexCoords, ty \in TexCoords}

\* a read that falls outside the bound buffer
BadRead(r) == r.comp \notin DOMAIN field \/ r.index \notin DOMAIN field[r.comp]

\* Engine::render: the fragment shader reads the field SSBOs
Render ==
    /\ pc = "render"
    /\ \E V \in Views :
          staleReads' = IF V = field THEN staleReads ELSE staleReads \cup {"render"}
    /\ \E aspect \in Aspects, cx \in Centers, cy \in Centers, zoom \in Zooms :
          badReads' = badReads \cup {r \in RenderReads(aspect, cx, cy, zoom) : BadRead(r)}
    /\ renders' = renders + 1
    /\ pc' = "poll"
    /\ UNCHANGED <<mode, sourceAmp, config, call, timestep, i, shouldClose, gpuVars, uiVars,
                   calls, hPasses, ePasses, frames, globalSize, schedule>>

----------------------------------------------------------------------------
(* Input: callbacks run inside glfwPollEvents only *)

Keys == {"ESCAPE", "1", "2", "3", "EQUAL", "RIGHT_BRACKET", "MINUS",
         "LEFT_BRACKET", "C", "R", "OTHER"}
KeyActions == {"PRESS", "REPEAT", "RELEASE"}

\* 3D_wave.cpp getSliceMax(), for a given sliceAxis
getSliceMax(axis) ==
    IF axis = 0 THEN config.nz - 1
    ELSE IF axis = 1 THEN config.ny - 1
    ELSE config.nx - 1

\* the slice index is not clamped when the slice axis changes
keyCallback_NoClamp(key, action) ==
    IF action /= "PRESS" /\ action /= "REPEAT"
    THEN UNCHANGED <<shouldClose, uiVars>>
    ELSE CASE key = "ESCAPE" ->
                /\ shouldClose' = TRUE
                /\ UNCHANGED uiVars
           [] key \in {"1", "2", "3"} ->
                /\ sliceAxis' = (CASE key = "1" -> 0 [] key = "2" -> 1 [] key = "3" -> 2)
                /\ UNCHANGED <<shouldClose, renderComponent, sliceIndex>>
           [] key \in {"EQUAL", "RIGHT_BRACKET"} ->
                /\ sliceIndex' = Min(sliceIndex + 1, getSliceMax(sliceAxis))
                /\ UNCHANGED <<shouldClose, renderComponent, sliceAxis>>
           [] key \in {"MINUS", "LEFT_BRACKET"} ->
                /\ sliceIndex' = Max(sliceIndex - 1, 0)
                /\ UNCHANGED <<shouldClose, renderComponent, sliceAxis>>
           [] key = "C" ->
                /\ renderComponent' = (renderComponent + 1) % 7
                /\ UNCHANGED <<shouldClose, sliceAxis, sliceIndex>>
           [] OTHER -> UNCHANGED <<shouldClose, uiVars>>

\* 3D_wave.cpp keyCallback(window, key, scancode, action, mods)
keyCallback(key, action) ==
    IF action /= "PRESS" /\ action /= "REPEAT"
    THEN UNCHANGED <<shouldClose, uiVars>>
    ELSE CASE key = "ESCAPE" ->
                /\ shouldClose' = TRUE
                /\ UNCHANGED uiVars
           [] key \in {"1", "2", "3"} ->
                /\ sliceAxis' = (CASE key = "1" -> 0 [] key = "2" -> 1 [] key = "3" -> 2)
                /\ sliceIndex' = Min(sliceIndex, getSliceMax(sliceAxis'))
                /\ UNCHANGED <<shouldClose, renderComponent>>
           [] key \in {"EQUAL", "RIGHT_BRACKET"} ->
                /\ sliceIndex' = Min(sliceIndex + 1, getSliceMax(sliceAxis))
                /\ UNCHANGED <<shouldClose, renderComponent, sliceAxis>>
           [] key \in {"MINUS", "LEFT_BRACKET"} ->
                /\ sliceIndex' = Max(sliceIndex - 1, 0)
                /\ UNCHANGED <<shouldClose, renderComponent, sliceAxis>>
           [] key = "C" ->
                /\ renderComponent' = (renderComponent + 1) % 7
                /\ UNCHANGED <<shouldClose, sliceAxis, sliceIndex>>
           [] OTHER -> UNCHANGED <<shouldClose, uiVars>>

\* camera.h setupCameraCallbacks: the 2D key callback
keyCallback2D(key, action) ==
    /\ shouldClose' = (shouldClose \/ (key = "ESCAPE" /\ action = "PRESS"))
    /\ UNCHANGED uiVars

\* glfwSwapBuffers; glfwPollEvents: at most one pending event is delivered;
\* the window's close button sets the close flag without a callback
PollEvents ==
    /\ pc = "poll"
    /\ \/ UNCHANGED <<shouldClose, uiVars>>
       \/ /\ shouldClose' = TRUE
          /\ UNCHANGED uiVars
       \/ \E key \in Keys, action \in KeyActions :
             IF mode = "2D" THEN keyCallback2D(key, action)
             ELSE keyCallback(key, action)
    /\ pc' = "test"
    /\ UNCHANGED <<mode, sourceAmp, config, call, timestep, i, gpuVars, histVars>>

\* Engine::cleanup: the buffers are deleted
Cleanup ==
    /\ pc = "cleanup"
    /\ field' = [comp \in {} |-> 0]
    /\ stale' = [comp \in {} |-> 0]
    /\ dirty' = {}
    /\ pc' = "exit"
    /\ UNCHANGED <<mode, sourceAmp, config, call, timestep, i, shouldClose, params,
                   updateStep, uiVars, histVars>>

Next ==
    \/ LoopTest
    \/ UploadSimParams
    \/ DispatchH
    \/ BarrierH
    \/ DispatchE
    \/ BarrierE
    \/ Increment
    \/ Render
    \/ PollEvents
    \/ Cleanup

Spec == Init /\ [][Next]_vars

\* a long run of the program built with SOURCE_AMP = 0
NextLong ==
    \/ LoopTest
    \/ UploadSimParamsLong
    \/ DispatchH
    \/ BarrierH
    \/ DispatchE
    \/ BarrierE
    \/ Increment
    \/ Render
    \/ PollEvents
    \/ Cleanup

SpecLongRun == InitWith(0) /\ [][NextLong]_vars

----------------------------------------------------------------------------
(* The grid.h functions and the fragment shaders' index formulas, called on *)
(* their own                                                                *)

\* field.frag: Ez[iy * nx + ix]; GLSL int arithmetic wraps
fieldFragIndex(ix, iy, nx) == Wrap(iy * nx + ix)
\* slice3d.frag: int idx(int x, int y, int z)
sliceFragIdx(x, y, z, nx, ny) == Wrap(z * nx * ny + y * nx + x)

Coords == {-1, 0, 2, INT_MAX}
Extents == {0, 2, 3, INT_MAX}
GridFns == {"idx2d", "inBounds", "idx3d", "inBounds3D"}

CallArgs(fn) ==
    CASE fn = "idx2d" -> Coords \X Coords \X Extents
      [] fn = "inBounds" -> Coords \X Coords \X Extents \X Extents
      [] fn = "idx3d" -> Coords \X Coords \X Coords \X Extents \X Extents
      [] fn = "inBounds3D" ->
            Coords \X Coords \X Coords \X Extents \X Extents \X Extents

InitGrid ==
    /\ mode = "2D"
    /\ config = DefaultConfig(mode)
    /\ \E fn \in GridFns : \E a \in CallArgs(fn) :
          call = [fn |-> fn, args |-> a, status |-> "pending", result |-> 0]
    /\ InitState(SOURCE_AMP)

Pending(fn) == call.fn = fn /\ call.status = "pending"

\* what a call leaves alone: everything but its own result
CallFrame ==
    UNCHANGED <<mode, sourceAmp, config, pc, timestep, i, shouldClose,
                gpuVars, uiVars, histVars>>

\* grid::idx2d(x, y, nx)
CallIdx2d ==
    /\ Pending("idx2d")
    /\ LET x == call.args[1]
           y == call.args[2]
           nx == call.args[3]
       IN  \E r \in IntOutcomes(idx2d(x, y, nx), {y * nx, idx2d(x, y, nx)}) :
              call' = [call EXCEPT !.status = r.status, !.result = r.value]
    /\ CallFrame

\* grid::inBounds(x, y, nx, ny)
CallInBounds ==
    /\ Pending("inBounds")
    /\ call' = [call EXCEPT !.status = "returned", !.result =
                    inBounds(call.args[1], call.args[2], call.args[3], call.args[4])]
    /\ CallFrame

\* grid::idx3d(x, y, z, nx, ny)
CallIdx3d ==
    /\ Pending("idx3d")
    /\ LET x == call.args[1]
           y == call.args[2]
           z == call.args[3]
           nx == call.args[4]
           ny == call.args[5]
       IN  \E r \in IntOutcomes(idx3d(x, y, z, nx, ny),
                                {z * nx, z * nx * ny, y * nx,
                                 z * nx * ny + y * nx, idx3d(x, y, z, nx, ny)}) :
              call' = [call EXCEPT !.status = r.status, !.result = r.value]
    /\ CallFrame

\* grid::inBounds3D(x, y, z, nx, ny, nz)
CallInBounds3D ==
    /\ Pending("inBounds3D")
    /\ call' = [call EXCEPT !.status = "returned", !.result =
                    inBounds3D(call.args[1], call.args[2], call.args[3],
                               call.args[4], call.args[5], call.args[6])]
    /\ CallFrame

NextGrid ==
    \/ CallIdx2d
    \/ CallInBounds
    \/ CallIdx3d
    \/ CallInBounds3D

SpecGrid == InitGrid /\ [][NextGrid]_vars

----------------------------------------------------------------------------
(* The index functions called on the cells of a grid and on coordinates    *)
(* just outside it                                                          *)

IndexCoords == -1 .. MaxExtent
IndexExtents == 0 .. MaxExtent

\* grids <<nx, ny, nz>> whose array length is an int, as GRID_SIZE is
IndexGrids ==
    {d \in IndexExtents \X IndexExtents \X IndexExtents :
        d[1] * d[2] * d[3] <= INT_MAX}

InitIndex ==
    /\ mode = "2D"
    /\ config = DefaultConfig(mode)
    /\ \E d \in IndexGrids, x \in IndexCoords, y \in IndexCoords, z \in IndexCoords :
          \/ /\ d[3] = 1
             /\ z = 0
             /\ call = [fn |-> "idx2d", args |-> <<x, y, d[1]>>, dims |-> d,
                        status |-> "pending", result |-> 0]
          \/ call = [fn |-> "idx3d", args |-> <<x, y, z, d[1], d[2]>>, dims |-> d,
                     status |-> "pending", result |-> 0]
    /\ InitState(SOURCE_AMP)

NextIndex ==
    \/ CallIdx2d
    \/ CallIdx3d

SpecIndex == InitIndex /\ [][NextIndex]_vars

----------------------------------------------------------------------------
(* The 3D key handler under any sequence of key events, for builds whose   *)
(* NX, NY, NZ need not be equal                                             *)

KeyExtents == {1, 2, 3}
KeyConfigs ==
    {[dt |-> DT_3D, nx |-> a, ny |-> b, nz |-> c] :
        a \in KeyExtents, b \in KeyExtents, c \in KeyExtents}

InitKeys ==
    /\ mode = "3D"
    /\ config \in KeyConfigs
    /\ call = NoCall
    /\ InitState(SOURCE_AMP)

\* what a key event leaves alone: everything but the globals keyCallback writes
KeyFrame ==
    UNCHANGED <<mode, sourceAmp, config, call, pc, timestep, i, gpuVars, histVars>>

\* GLFW delivers one key event to keyCallback
KeyEvent ==
    /\ \E key \in Keys, action \in KeyActions : keyCallback(key, action)
    /\ KeyFrame

NextKeys == KeyEvent

SpecKeys == InitKeys /\ [][NextKeys]_vars

\* the same program built with SOURCE_AMP = 0
SpecZeroSource == InitWith(0) /\ [][Next]_vars

\* a time step above the Courant limit of both solvers, 0.75
DT_TooLarge == (3 * ONE) \div 4

\* the same program built with em::DT (em::DT_3D) as shipped or too large;
\* main starts the loop right after Engine::init, whatever the constants
Configs(m) == {[DefaultConfig(m) EXCEPT !.dt = d] : d \in {DefaultConfig(m).dt, DT_TooLarge}}

InitConfig ==
    /\ mode \in Modes
    /\ config \in Configs(mode)
    /\ call = NoCall
    /\ InitState(SOURCE_AMP)

SpecConfig == InitConfig /\ [][Next]_vars

----------------------------------------------------------------------------
(* Properties *)

Allocated == pc /= "exit"
HostCells == 0 .. (GridSize(mode) - 1)
AllZero == \A comp \in DOMAIN field : \A c \in DOMAIN field[comp] : field[comp][c] = 0

\* C1: pass 2 of an Update Stage invocation starts only after pass 1 of the
\* same invocation has run for the whole grid and the storage barrier after
\* it has been issued; no pass 2 ever read an H array that could still show
\* values from before pass 1.
C1_HBeforeE ==
    /\ "E" \notin staleReads
    /\ pc = "dispatchE" =>
          /\ hPasses = calls
          /\ ePasses = calls - 1
          /\ dirty = {}
          /\ stale = field

C1_Witness ==
    /\ pc = "barrierE"
    /\ calls >= 2
    /\ \E comp \in HComps(mode) : \E c \in HostCells : field[comp][c] /= 0

\* C2: after each pass the arrays are what the pass computes when every
\* invocation reads the values the arrays held before the pass began (the
\* contents as of the preceding barrier), so the result does not depend on
\* the order of the per-cell invocations.
C2_OrderIndependent ==
    /\ pc = "barrierH" => field = HPass(stale, params)
    /\ pc = "barrierE" => field = EPass(stale, params, {})

\* C3: whenever render runs, every Update Stage invocation started so far
\* has completed both passes, the barrier after pass 2 has been issued, and
\* the fragment shader never read unsynchronised data.
C3_RenderWholeSteps ==
    /\ "render" \notin staleReads
    /\ pc = "render" =>
          /\ hPasses = calls
          /\ ePasses = calls
          /\ timestep = calls
          /\ dirty = {}
          /\ stale = field

C3_Witness ==
    /\ pc = "poll"
    /\ renders >= 1
    /\ \E c \in HostCells : field["Ez"][c] /= 0

\* C4: the timestep counter starts at 0 and the k-th updateFields call
\* (k = 0, 1, ...) receives timestep = k; the Parameter Block built for it
\* carries that timestep and time = timestep * dt.
C4_TimestepCounter ==
    /\ timestep >= 0
    /\ pc = "upload" => timestep = calls
    /\ pc \in {"dispatchH", "barrierH", "dispatchE", "barrierE", "inc"} =>
          /\ timestep = calls - 1
          /\ params.timestep = calls - 1
          /\ params.time = params.timestep * params.dt
    /\ pc \in {"test", "render", "poll", "cleanup", "exit"} => timestep = calls

C4_Witness == pc = "dispatchH" /\ calls = 3 /\ params.timestep = 2

\* C5: every frame runs exactly STEPS_PER_FRAME Update Stage invocations and
\* then one render; the loop is left only at a frame boundary; at every
\* render and at loop exit timestep = STEPS_PER_FRAME * (frames run).
C5_FrameStructure ==
    /\ pc \in {"upload", "dispatchH", "barrierH", "dispatchE", "barrierE", "inc"} =>
          /\ i < StepsPerFrame(mode)
          /\ timestep = StepsPerFrame(mode) * (frames - 1) + i
          /\ renders = frames - 1
    /\ pc = "render" =>
          /\ timestep = StepsPerFrame(mode) * frames
          /\ renders = frames - 1
    /\ pc \in {"poll", "test", "cleanup", "exit"} =>
          /\ timestep = StepsPerFrame(mode) * frames
          /\ renders = frames

C5_Witness == mode = "2D" /\ pc = "exit" /\ frames = 1 /\ timestep = STEPS_PER_FRAME_2D

\* the 2D source cell and the source term at time = one dt
SourceCell2D == idx2d(NX2D \div 2, NY2D \div 2, NX2D)
SourceAtDt == FMul(SOURCE_AMP, Sin(FMul(FMul(2 * PI, SOURCE_FREQ_2D), DT)))

OnlySource2D(v) ==
    /\ field["Ez"][SourceCell2D] = v
    /\ \A comp \in DOMAIN field : \A c \in DOMAIN field[comp] :
          (comp /= "Ez" \/ c /= SourceCell2D) => field[comp][c] = 0

\* C6 as stated: after the first Update Stage invocation from cold start Ez
\* at the source cell is source_amp * sin(2*pi*source_freq*dt) and every
\* other cell of Ez, Hx, Hy is 0.
C6_SourceAfterFirstStep ==
    (mode = "2D" /\ hPasses = 1 /\ ePasses = 1) => OnlySource2D(SourceAtDt)

\* C6 amended: the first invocation evaluates the source at time 0, so after
\* it every cell, the source cell included, is 0; after the second
\* invocation Ez at the source cell is source_amp * sin(2*pi*source_freq*dt),
\* which is not 0, and every other cell of Ez, Hx, Hy is 0.
C6_SourceAfterSecondStep ==
    /\ (mode = "2D" /\ hPasses = 1 /\ ePasses = 1) => AllZero
    /\ (mode = "2D" /\ hPasses = 2 /\ ePasses = 2) =>
          /\ SourceAtDt /= 0
          /\ OnlySource2D(SourceAtDt)

C6_Witness == mode = "2D" /\ pc = "upload" /\ timestep = 2 /\ ePasses = 2

\* C7: with source_amp = 0 and zero initial arrays every cell of every field
\* array is 0 after any number of Update Stage invocations.
C7_ZeroSourceStaysZero == sourceAmp = 0 => AllZero

C7_Witness == sourceAmp = 0 /\ pc = "render" /\ timestep >= 2 /\ Allocated

\* Manhattan distance of cell c from the source cell the driver configures
Abs(v) == IF v < 0 THEN -v ELSE v
\* Manhattan distance of cell c from the source cell of mode m
ManhattanFromSource(m, c) ==
    IF m = "2D"
    THEN Abs((c % NX2D) - (NX2D \div 2)) + Abs((c \div NX2D) - (NY2D \div 2))
    ELSE Abs((c % NX3D) - (NX3D \div 2))
         + Abs(((c \div NX3D) % NY3D) - (NY3D \div 2))
         + Abs((c \div (NX3D * NY3D)) - (NZ3D \div 2))
DistanceTable ==
    [m \in Modes |-> [c \in 0 .. (GridSize(m) - 1) |-> ManhattanFromSource(m, c)]]
SourceDistance(c) == DistanceTable[mode][c]

Ez2D(x, y) == field["Ez"][idx2d(x, y, NX2D)]

\* C9 as stated: Ez is invariant under x -> nx-1-x and y -> ny-1-y after
\* every timestep.
C9_GridReflection ==
    (mode = "2D" /\ Allocated) =>
        \A x \in 0 .. (NX2D - 1), y \in 0 .. (NY2D - 1) :
            /\ Ez2D(x, y) = Ez2D(NX2D - 1 - x, y)
            /\ Ez2D(x, y) = Ez2D(x, NY2D - 1 - y)

\* C9 amended: during the first NX/2 - 1 timesteps (before the wave reaches
\* the cells next to the nearest faces) Ez is invariant under the reflections
\* about the source cell, x -> NX - x and y -> NY - y.
C9_SourceReflection ==
    (mode = "2D" /\ Allocated /\ timestep <= (NX2D \div 2) - 1 /\ ePasses <= (NX2D \div 2) - 1) =>
        \A x \in 1 .. (NX2D - 1), y \in 1 .. (NY2D - 1) :
            /\ Ez2D(x, y) = Ez2D(NX2D - x, y)
            /\ Ez2D(x, y) = Ez2D(x, NY2D - y)

C9_Witness ==
    /\ mode = "2D"
    /\ timestep = (NX2D \div 2) - 1
    /\ pc = "upload"
    /\ Ez2D((NX2D \div 2) + 1, NY2D \div 2) /= 0
    /\ Ez2D(NX2D \div 2, (NY2D \div 2) - 1) /= 0

\* the arrays after k Update Stage invocations when every invocation of a
\* pass reads the values from before the pass
RECURSIVE RefField(_, _, _)
RefField(m, amp, k) ==
    IF k = 0 THEN initBuffers(m)
    ELSE LET p == IF m = "2D" THEN uploadSimParams2D(k - 1, amp)
                  ELSE uploadSimParams3D(k - 1, amp, 2, 0, NZ3D \div 2)
         IN  EPass(HPass(RefField(m, amp, k - 1), p), p, {})

\* C10: the arrays after k Update Stage invocations are determined by the
\* initial arrays, the parameters and k alone: every run reaches the same
\* arrays, whatever the order of the per-cell invocations and the input.
C10_Deterministic ==
    (Allocated /\ hPasses = timestep /\ ePasses = timestep) =>
        field = RefField(mode, sourceAmp, timestep)

----------------------------------------------------------------------------
(* Configuration *)

\* the Courant condition dt <= dx / (c * sqrt(D)), squared: D c^2 dt^2 <= dx^2
Courant(D, c, dt, dx) == D * FMul(FMul(c, dt), FMul(c, dt)) <= FMul(dx, dx)

Dimension(m) == IF m = "2D" THEN 2 ELSE 3

\* the Parameter Block the build hands to its first step
FirstBlock ==
    IF mode = "2D" THEN uploadSimParams2D(0, sourceAmp)
    ELSE uploadSimParams3D(0, sourceAmp, 2, 0, config.nz \div 2)

ConfigError ==
    LET p == FirstBlock
    IN  \/ ~Courant(Dimension(mode), C, p.dt, p.dx)
        \/ p.nx <= 0 \/ p.ny <= 0 \/ PNz(p) <= 0
        \/ ~inBounds3D(p.source_x, p.source_y, PSrcZ(p), p.nx, p.ny, PNz(p))

\* C11: a configuration error (Courant condition violated, non-positive grid
\* extent, source cell outside the grid) is fatal before the first step: with
\* such a configuration no Update Stage invocation and no render ever runs.
C11_ConfigErrorFatal == ConfigError => (calls = 0 /\ renders = 0)

\* C12: the shipped constants satisfy the Courant condition, D c^2 dt^2 <=
\* dx^2 with D = 2 for em::DT and D = 3 for em::DT_3D, and every Parameter
\* Block carries that dt (and dx) unchanged.
C12_CourantHolds ==
    /\ Courant(2, C, DT, DX)
    /\ Courant(3, C, DT_3D, DX)
    /\ params /= NoParams =>
          /\ params.dt = (IF mode = "2D" THEN DT ELSE DT_3D)
          /\ params.dx = DX
          /\ Courant(Dimension(mode), C, params.dt, params.dx)

C12_Witness ==
    /\ mode = "3D"
    /\ pc = "dispatchE"
    /\ params /= NoParams
    /\ params.timestep = 1
    /\ params.dt = DT_3D

----------------------------------------------------------------------------
(* Grid Indexer *)

\* the call has ended; Returned: with a value, not with an error
Ended(fn) == call.fn = fn /\ call.status /= "pending"
Returned(fn) == call.fn = fn /\ call.status = "returned"

\* nothing but the call's result has changed since the call was made
CallChangedNothing ==
    /\ pc = "test" /\ timestep = 0 /\ shouldClose = FALSE
    /\ field = initBuffers(mode) /\ stale = field /\ params = NoParams
    /\ uiVars = <<2, 0, config.nz \div 2>>

\* inBounds / inBounds3D: true iff every coordinate lies in [0, dim)
InBoundsRight ==
    /\ Ended("inBounds") =>
          call.status = "returned" /\ (call.result = TRUE <=>
              \A k \in 1 .. 2 : 0 <= call.args[k] /\ call.args[k] < call.args[k + 2])
    /\ Ended("inBounds3D") =>
          call.status = "returned" /\ (call.result = TRUE <=>
              \A k \in 1 .. 3 : 0 <= call.args[k] /\ call.args[k] < call.args[k + 3])

\* C13 as stated: idx2d returns y*nx + x and idx3d returns z*nx*ny + y*nx + x
\* for all integer inputs, inBounds / inBounds3D are true iff every coordinate
\* is in [0, dim), no call raises an error or changes state, and the fragment
\* shaders' index formulas agree.
C13_IndexerAllInputs ==
    /\ Ended("idx2d") =>
          /\ call.status = "returned"
          /\ call.result = call.args[2] * call.args[3] + call.args[1]
          /\ call.result = fieldFragIndex(call.args[1], call.args[2], call.args[3])
    /\ Ended("idx3d") =>
          /\ call.status = "returned"
          /\ call.result = call.args[3] * call.args[4] * call.args[5]
                           + call.args[2] * call.args[4] + call.args[1]
          /\ call.result = sliceFragIdx(call.args[1], call.args[2], call.args[3],
                                        call.args[4], call.args[5])
    /\ InBoundsRight
    /\ call.fn /= "none" => CallChangedNothing

\* every partial result of y*nx + x, resp. z*nx*ny + y*nx + x, is an int
Fits2d(a) == {a[2] * a[3], a[2] * a[3] + a[1]} \subseteq IntRange
Fits3d(a) ==
    {a[3] * a[4], a[3] * a[4] * a[5], a[2] * a[4],
     a[3] * a[4] * a[5] + a[2] * a[4],
     a[3] * a[4] * a[5] + a[2] * a[4] + a[1]} \subseteq IntRange

\* C13, amended: the same, for all int inputs for which every partial result
\* of the index expression is representable as an int (out-of-range
\* coordinates included).
C13_IndexerWithinInt ==
    /\ (Ended("idx2d") /\ Fits2d(call.args)) =>
          /\ call.status = "returned"
          /\ call.result = call.args[2] * call.args[3] + call.args[1]
          /\ call.result = fieldFragIndex(call.args[1], call.args[2], call.args[3])
    /\ (Ended("idx3d") /\ Fits3d(call.args)) =>
          /\ call.status = "returned"
          /\ call.result = call.args[3] * call.args[4] * call.args[5]
                           + call.args[2] * call.args[4] + call.args[1]
          /\ call.result = sliceFragIdx(call.args[1], call.args[2], call.args[3],
                                        call.args[4], call.args[5])
    /\ InBoundsRight
    /\ call.fn /= "none" => CallChangedNothing

\* idx2d(2, 2, 2): x = nx is out of range and is accepted, the result is 6
C13_Witness ==
    /\ Returned("idx2d")
    /\ call.args = <<2, 2, 2>>
    /\ call.result = 6

----------------------------------------------------------------------------
(* Field Store *)

\* C14: from startup until cleanup the field arrays of the mode are the same
\* arrays, Ez,Hx,Hy in 2D and Ex,Ey,Ez,Hx,Hy,Hz in 3D, each of length
\* nx*ny[*nz]; they are all zero while timestep = 0; cleanup deletes them.
C14_FieldStoreLifecycle ==
    /\ Allocated =>
          /\ DOMAIN field = Comps(mode)
          /\ \A comp \in Comps(mode) : DOMAIN field[comp] = 0 .. (GridSize(mode) - 1)
          /\ timestep = 0 => AllZero
    /\ ~Allocated => DOMAIN field = {}

C14_Witness ==
    /\ mode = "3D"
    /\ pc = "render"
    /\ timestep = MaxSteps3D
    /\ ~AllZero
    /\ Cardinality(DOMAIN field) = 6
    /\ \A comp \in DOMAIN field : Cardinality(DOMAIN field[comp]) = GRID_SIZE_3D

----------------------------------------------------------------------------
(* Read-side selection *)

\* the 3D arrays after k Update Stage invocations of a run in which no key
\* was ever pressed (renderComponent = 2, sliceAxis = 0, sliceIndex = NZ/2)
\* and whose pass 2 invocations ran in the orders sched[1], ..., sched[k]
RECURSIVE Replay3D(_, _, _)
Replay3D(amp, sched, k) ==
    IF k = 0 THEN initBuffers("3D")
    ELSE LET p == uploadSimParams3D(k - 1, amp, 2, 0, NZ3D \div 2)
         IN  EPass(HPass(Replay3D(amp, sched, k - 1), p), p, sched[k])

\* C15: in 3D, a run with any sequence of key events has, at every render,
\* the timestep and the field arrays of the run without key events that had
\* the same number of Update Stage invocations and the same scheduling.
C15_SelectionNoInfluence ==
    (mode = "3D" /\ pc = "render") =>
        /\ timestep = Len(schedule)
        /\ field = Replay3D(sourceAmp, schedule, Len(schedule))

\* two steps were made with a changed selection in the block of the second
C15_Witness ==
    /\ mode = "3D"
    /\ pc = "render"
    /\ timestep = 2
    /\ params.slice_axis /= 0
    /\ params.timestep = 1
    /\ ~AllZero

----------------------------------------------------------------------------
(* Dispatch *)

\* the global invocation coordinates of a dispatch with gs invocations per axis
Invocations(gs) == (0 .. (gs[1] - 1)) \X (0 .. (gs[2] - 1)) \X (0 .. (gs[3] - 1))

\* the cells of the grid, as coordinates
GridCoords(m) ==
    IF m = "2D" THEN (0 .. (NX2D - 1)) \X (0 .. (NY2D - 1)) \X {0}
    ELSE (0 .. (NX3D - 1)) \X (0 .. (NY3D - 1)) \X (0 .. (NZ3D - 1))

\* C16: the invocations of each dispatch (pass 1 and pass 2) are exactly the
\* cells of the grid: every cell has its invocation, one per pass, and no
\* invocation has a coordinate outside the grid's extent.
C16_InvocationsAreCells ==
    pc \in {"barrierH", "barrierE"} =>
        /\ Invocations(globalSize) = GridCoords(mode)
        /\ Cardinality(Invocations(globalSize)) = GridSize(mode)

C16_Witness ==
    /\ mode = "3D"
    /\ pc = "barrierE"
    /\ ePasses = 2
    /\ globalSize = <<NX3D, NY3D, NZ3D>>
    /\ WorkGroups(mode) = <<2, 2, 2>>

----------------------------------------------------------------------------
(* Parameter Block *)

\* the block is written by uploadSimParams only, once per Update Stage
\* invocation and before pass 1, with the invocation's timestep; from then
\* until the invocation's pass 2 has completed it is that block
SnapshotPerStep ==
    /\ params' /= params => (pc = "upload" /\ pc' = "dispatchH")
    /\ pc = "upload" => (params'.timestep = timestep /\ calls' = calls + 1)
    /\ pc \in {"dispatchH", "barrierH", "dispatchE", "barrierE"} =>
          (params.timestep = timestep /\ params' = params /\ calls = timestep + 1)

\* from one block to the next, every field outside free keeps its value
OnlyChanges(free) ==
    (params /= NoParams /\ params' /= params) =>
        /\ DOMAIN params' = DOMAIN params
        /\ \A f \in DOMAIN params \ free : params'[f] = params[f]

\* C17 as stated: the block is a per-step snapshot, and between the blocks of
\* consecutive timesteps only timestep and time change.
C17_OnlyTimeChanges ==
    [][SnapshotPerStep /\ OnlyChanges({"timestep", "time"})]_vars

\* C17, amended: the block is a per-step snapshot; between the blocks of
\* consecutive timesteps only timestep and time change and, in 3D, the
\* read-side selection render_component, slice_axis, slice_index, which
\* follows the key events; nx, ny[, nz], dx, dt, the source cell, source_freq
\* and source_amp are the same in every block of a run.
C17_SnapshotPerStep ==
    [][SnapshotPerStep
       /\ OnlyChanges({"timestep", "time",
                       "render_component", "slice_axis", "slice_index"})]_vars

\* the second block of a 3D run carries a slice index changed by a key
C17_Witness ==
    /\ mode = "3D"
    /\ pc = "dispatchE"
    /\ params.timestep = 1
    /\ params.slice_index /= NZ3D \div 2
    /\ params.nx = NX3D

----------------------------------------------------------------------------
(* Counter range *)

\* C18: for a run of any length the timestep counter never decreases, stays
\* non-negative and its increment never overflows, so the time carried by
\* the Parameter Blocks never decreases.
C18_CounterMonotonic ==
    [][/\ timestep' >= timestep
       /\ timestep' >= 0
       /\ pc' /= "aborted"
       /\ (params /= NoParams /\ params' /= NoParams) => params'.time >= params.time]_vars

----------------------------------------------------------------------------
(* Render selection *)

\* const char* componentNames[] (7 entries) and axisNames[] (3 entries)
componentNames == <<"Ex", "Ey", "Ez", "|E|", "Hx", "Hy", "Hz">>
axisNames == <<"XY", "XZ", "YZ">>

\* a RELEASE event of this key that changes the selection or the close flag
ReleaseChanges(key) ==
    /\ keyCallback(key, "RELEASE")
    /\ KeyFrame
    /\ <<shouldClose, renderComponent, sliceAxis, sliceIndex>>'
           /= <<shouldClose, renderComponent, sliceAxis, sliceIndex>>

\* C19: after any sequence of key events the selection is valid: sliceAxis
\* in {0,1,2}, 0 <= sliceIndex <= getSliceMax() for the current axis (also
\* when NX, NY, NZ differ), renderComponent in 0..6, so both name lookups
\* are in range; no RELEASE event can change any of them.
C19_SelectionValid ==
    /\ sliceAxis \in {0, 1, 2}
    /\ 0 <= sliceIndex
    /\ sliceIndex <= getSliceMax(sliceAxis)
    /\ renderComponent \in 0 .. 6
    /\ (renderComponent + 1) \in DOMAIN componentNames
    /\ (sliceAxis + 1) \in DOMAIN axisNames
    /\ \A key \in Keys : ~ENABLED ReleaseChanges(key)

\* a YZ slice at the last x of a grid whose NX differs from NZ, showing Hz
C19_Witness ==
    /\ config.nx = 2
    /\ config.nz = 3
    /\ sliceAxis = 2
    /\ sliceIndex = getSliceMax(sliceAxis)
    /\ renderComponent = 6

----------------------------------------------------------------------------
(* Renderer reads *)

\* C20: a draw reads only elements inside the field arrays, whatever the
\* fragment, aspect ratio, camera pan and zoom, slice axis and slice index,
\* and it leaves every field array as it was.
C20_RenderReadsInBounds ==
    [][(pc = "render") => (badReads' = {} /\ field' = field /\ stale' = stale)]_vars

\* a 3D frame was drawn with the slice at the last plane of its axis, and a
\* fragment read the last element of Ez
C20_Witness ==
    /\ pc = "poll"
    /\ mode = "3D"
    /\ renders = 2
    /\ sliceIndex = getSliceMax(sliceAxis)
    /\ \E aspect \in Aspects :
          [comp |-> "Ez", index |-> GridSize(mode) - 1] \in RenderReads(aspect, 0, 0, ONE)

----------------------------------------------------------------------------
(* Index bijection *)

\* the cells of a grid and the slots of its array
GridCells(d) == (0 .. (d[1] - 1)) \X (0 .. (d[2] - 1)) \X (0 .. (d[3] - 1))
Slots(d) == 0 .. (d[1] * d[2] * d[3] - 1)

\* the coordinates of the call, z = 0 for idx2d
CallCell ==
    IF call.fn = "idx2d" THEN <<call.args[1], call.args[2], 0>>
    ELSE <<call.args[1], call.args[2], call.args[3]>>

\* the index function of the call, applied to a cell of its grid
IndexOf(c) ==
    IF call.fn = "idx2d" THEN idx2d(c[1], c[2], call.dims[1])
    ELSE idx3d(c[1], c[2], c[3], call.dims[1], call.dims[2])

\* in-bounds calls return a slot no other cell has, and every slot of the
\* grid is the index of a cell
IndexBijection ==
    /\ (call.status /= "pending" /\ CallCell \in GridCells(call.dims)) =>
          /\ call.status = "returned"
          /\ call.result = IndexOf(CallCell)
          /\ call.result \in Slots(call.dims)
          /\ \A c \in GridCells(call.dims) :
                IndexOf(c) = call.result => c = CallCell
    /\ \A s \in Slots(call.dims) : \E c \in GridCells(call.dims) : IndexOf(c) = s
    /\ \A c1 \in GridCells(call.dims), c2 \in GridCells(call.dims) :
          IndexOf(c1) = IndexOf(c2) => c1 = c2

\* an out-of-range call has returned
ReturnedOutOfRange ==
    call.status = "returned" /\ CallCell \notin GridCells(call.dims)

\* the result is the index of an in-bounds cell other than the call's
AliasesCell ==
    \E c \in GridCells(call.dims) : c /= CallCell /\ IndexOf(c) = call.result

\* C21 as stated: the index functions are bijections from the in-bounds
\* cells onto the array slots, and every out-of-range coordinate accepted
\* without error yields the index of a different in-bounds cell.
C21_OutOfRangeAliases ==
    /\ IndexBijection
    /\ ReturnedOutOfRange => AliasesCell

\* C21: the index functions are bijections from the in-bounds cells onto
\* the array slots; an out-of-range coordinate accepted without error
\* yields either the index of a different in-bounds cell or an index
\* outside the array: x = nx gives the index of cell (0, y+1) of the same
\* plane, which lies outside the array when (y, z) is the last row of the
\* last plane.
C21_IndexBijection ==
    /\ IndexBijection
    /\ ReturnedOutOfRange =>
          (AliasesCell \/ call.result \notin Slots(call.dims))
    /\ (ReturnedOutOfRange /\ CallCell[1] = call.dims[1]
          /\ <<0, CallCell[2], CallCell[3]>> \in GridCells(call.dims)) =>
          /\ call.result = IndexOf(<<0, CallCell[2] + 1, CallCell[3]>>)
          /\ AliasesCell <=>
                (CallCell[2] + 1 < call.dims[2] \/ CallCell[3] + 1 < call.dims[3])

\* idx3d has returned the last slot of a 1 x 2 x 3 grid for its last cell
C21_Witness ==
    /\ call.fn = "idx3d"
    /\ call.status = "returned"
    /\ call.dims = <<1, 2, 3>>
    /\ CallCell = <<0, 1, 2>>
    /\ call.result = 5

====
